---- MODULE Spec2Model ----
(***************************************************************************)
(* A model of the Yescode status bar extension (src/src/extension.ts):     *)
(* the balance classifier calculateCriticalBalance, the refresh handler    *)
(* updateBalance with its fetchBalance step, the setApiKey command and the *)
(* triggers that activate() wires up.                                      *)
(*                                                                         *)
(* Numbers.  A JavaScript number is modelled as an extended rational: a    *)
(* finite fraction n/d in lowest terms, NaN, +Infinity or -Infinity.       *)
(* Division follows IEEE-754 for a zero divisor (x/0 is +-Infinity, 0/0 is *)
(* NaN) and every comparison with NaN is false.  The inputs are small      *)
(* integers, for which the binary64 quotients order exactly as the         *)
(* rationals do; binary64 rounding error itself is not modelled.           *)
(***************************************************************************)
EXTENDS Integers, Sequences, FiniteSets, TLC

(***************************************************************************)
(* Bounds of the model.                                                    *)
(***************************************************************************)
\* plan limits, balances and weekly spend range over 0..MaxAmount dollars
MaxAmount == 6
\* refreshes that can be in flight at the same time
MaxTasks == 2
\* warning prompts ("API Key not set") that can be open at the same time
MaxPrompts == 1

(***************************************************************************)
(* Program constants.                                                      *)
(***************************************************************************)
SubErrorBelow == 20
SubWarningBelow == 50
PaygErrorBelow == 10
PaygWarningBelow == 50
Hundred == 100

(***************************************************************************)
(* JavaScript numbers.                                                     *)
(***************************************************************************)
Abs(i) == IF i < 0 THEN -i ELSE i

RECURSIVE Gcd(_, _)
Gcd(a, b) == IF b = 0 THEN a ELSE Gcd(b, a % b)

RECURSIVE Pow10(_)
Pow10(f) == IF f = 0 THEN 1 ELSE 10 * Pow10(f - 1)

NaN == [k |-> "nan", n |-> 0, d |-> 1]
PInf == [k |-> "inf", n |-> 1, d |-> 1]
NInf == [k |-> "inf", n |-> -1, d |-> 1]

\* the fraction n/d (d > 0) in lowest terms
Frac(n, d) ==
    LET g == Gcd(Abs(n), d)
    IN  [k |-> "fin", n |-> n \div g, d |-> d \div g]

\* an integer literal or integer JSON field
Num(i) == Frac(i, 1)

IsFinite(x) == x.k = "fin"

\* a - b, for finite operands
Sub(a, b) == Frac(a.n * b.d - b.n * a.d, a.d * b.d)

\* a / b, for finite operands (IEEE-754 for a zero divisor)
Div(a, b) ==
    IF b.n = 0
    THEN IF a.n = 0 THEN NaN ELSE IF a.n > 0 THEN PInf ELSE NInf
    ELSE IF b.n > 0 THEN Frac(a.n * b.d, a.d * b.n)
         ELSE Frac(-(a.n * b.d), a.d * (-b.n))

\* a * b, for a finite positive b
Mul(a, b) ==
    IF a.k = "fin" THEN Frac(a.n * b.n, a.d * b.d) ELSE a

\* a < b; false when either side is NaN
Lt(a, b) ==
    IF a.k = "nan" \/ b.k = "nan" THEN FALSE
    ELSE IF a.k = "inf" THEN a.n < 0 /\ ~(b.k = "inf" /\ b.n < 0)
    ELSE IF b.k = "inf" THEN b.n > 0
    ELSE a.n * b.d < b.n * a.d

\* a <= b; false when either side is NaN
Le(a, b) ==
    IF a.k = "nan" \/ b.k = "nan" THEN FALSE
    ELSE Lt(a, b) \/ a = b

(***************************************************************************)
(* Number.prototype.toFixed(f): the decimal string with f fraction digits, *)
(* kept as its sign and its digits read as an integer (units of 10^-f).    *)
(* The nearest such decimal is taken, the larger one on a tie; a negative  *)
(* number is formatted as "-" followed by its magnitude.                   *)
(***************************************************************************)
toFixed(x, f) ==
    IF x.k = "nan" THEN [s |-> "NaN", neg |-> FALSE, units |-> 0, digits |-> f]
    ELSE IF x.k = "inf"
    THEN [s |-> "Infinity", neg |-> x.n < 0, units |-> 0, digits |-> f]
    ELSE LET m == Abs(x.n)
         IN  [s |-> "decimal", neg |-> x.n < 0,
              units |-> (2 * m * Pow10(f) + x.d) \div (2 * x.d),
              digits |-> f]

(***************************************************************************)
(* Profile model: the JSON shape the profile endpoint returns.             *)
(***************************************************************************)
\* subscription_plan: null
NullPlan == [present |-> FALSE, daily_balance |-> 0, weekly_limit |-> 0]

SubscriptionPlan ==
    { [present |-> TRUE, daily_balance |-> db, weekly_limit |-> wl] :
        db \in 0..MaxAmount, wl \in 0..MaxAmount }

\* pay-as-you-go balances on both sides of the two colour thresholds
PaygAmounts ==
    {0, PaygErrorBelow - 1, PaygErrorBelow, PaygWarningBelow - 1, PaygWarningBelow}

ProfileResponse ==
    [subscription_balance : -1..MaxAmount,
     pay_as_you_go_balance : PaygAmounts,
     current_week_spend : 0..MaxAmount,
     subscription_plan : SubscriptionPlan \cup {NullPlan}]

(***************************************************************************)
(* Strings built by template literals: the fixed text of the template and  *)
(* the formatted numbers spliced into it, in order.                        *)
(***************************************************************************)
Template(label, nums) == [label |-> label, nums |-> nums]

PaygText(payg) == Template("Yescode PAYG: $_", <<toFixed(payg, 2)>>)
PaygTooltip(payg) ==
    Template("Pay-as-you-go Balance: $_ / / Click to refresh", <<toFixed(payg, 2)>>)
DailyText(pct) == Template("Yescode Daily: _%", <<toFixed(pct, 0)>>)
WeeklyText(pct) == Template("Yescode Weekly: _%", <<toFixed(pct, 0)>>)
BreakdownTooltip(sb, db, dp, wr, wl, wp, payg) ==
    Template("Daily: $_ / $_ (_%) / Weekly: $_ / $_ (_%) / PAYG Available: $_ / / Click to refresh",
             <<toFixed(sb, 2), toFixed(db, 2), toFixed(dp, 1),
               toFixed(wr, 2), toFixed(wl, 2), toFixed(wp, 1), toFixed(payg, 2)>>)

(***************************************************************************)
(* calculateCriticalBalance.  Reading a field of a null subscription_plan  *)
(* throws a TypeError, which is reported as threw = TRUE.                  *)
(***************************************************************************)
Thrown ==
    [threw |-> TRUE, type |-> "none", percentage |-> NaN,
     displayText |-> Template("", <<>>), tooltip |-> Template("", <<>>)]

Returned(type, percentage, displayText, tooltip) ==
    [threw |-> FALSE, type |-> type, percentage |-> percentage,
     displayText |-> displayText, tooltip |-> tooltip]

\* isDepleted with `< 0` written for `<= 0`
isDepletedStrict(subscription_balance) == Lt(subscription_balance, Num(0))

\* line 137: the subscription balance is depleted
isDepleted(subscription_balance) == Le(subscription_balance, Num(0))

\* line 147
dailyPercentage(data) ==
    Mul(Div(Num(data.subscription_balance),
            Num(data.subscription_plan.daily_balance)), Num(Hundred))

\* line 150
weeklyRemaining(data) ==
    Sub(Num(data.subscription_plan.weekly_limit), Num(data.current_week_spend))

\* line 151
weeklyPercentage(data) ==
    Mul(Div(weeklyRemaining(data), Num(data.subscription_plan.weekly_limit)),
        Num(Hundred))

\* line 154
isCriticalDaily(daily, weekly) == Le(daily, weekly)

calculateCriticalBalance(data) ==
    LET subscription_balance == Num(data.subscription_balance)
        pay_as_you_go_balance == Num(data.pay_as_you_go_balance)
        subscription_plan == data.subscription_plan
    IN  IF isDepleted(subscription_balance)
        THEN Returned("payg", pay_as_you_go_balance,
                      PaygText(pay_as_you_go_balance),
                      PaygTooltip(pay_as_you_go_balance))
        ELSE IF ~subscription_plan.present
        THEN Thrown
        ELSE LET tooltip ==
                     BreakdownTooltip(subscription_balance,
                                      Num(subscription_plan.daily_balance),
                                      dailyPercentage(data),
                                      weeklyRemaining(data),
                                      Num(subscription_plan.weekly_limit),
                                      weeklyPercentage(data),
                                      pay_as_you_go_balance)
             IN  IF isCriticalDaily(dailyPercentage(data), weeklyPercentage(data))
                 THEN Returned("daily", dailyPercentage(data),
                               DailyText(dailyPercentage(data)), tooltip)
                 ELSE Returned("weekly", weeklyPercentage(data),
                               WeeklyText(weeklyPercentage(data)), tooltip)

(***************************************************************************)
(* The status bar item and what updateBalance writes to it.                *)
(***************************************************************************)
LoadingText == Template("Yescode: Loading...", <<>>)
ErrorText == Template("Yescode: Error", <<>>)
NoTooltip == Template("", <<>>)
FetchFailedTooltip == Template("Failed to fetch balance. Click to retry.", <<>>)
UnexpectedTooltip == Template("An unexpected error occurred. Click to retry.", <<>>)

\* lines 22-28: the item activate() creates; "none" is an undefined colour
CreatedItem ==
    [text |-> LoadingText, tooltip |-> NoTooltip, backgroundColor |-> "none"]

\* backgroundColorFor with `<=` written for `<` on the subscription thresholds
backgroundColorInclusive(result, current) ==
    IF result.type # "payg"
    THEN IF Le(result.percentage, Num(SubErrorBelow)) THEN "error"
         ELSE IF Le(result.percentage, Num(SubWarningBelow)) THEN "warning"
         ELSE "none"
    ELSE IF Lt(result.percentage, Num(PaygErrorBelow)) THEN "error"
         ELSE IF Lt(result.percentage, Num(PaygWarningBelow)) THEN "warning"
         ELSE "none"

\* backgroundColorFor without the two assignments of undefined: a colour set
\* earlier stays when the new reading needs none
backgroundColorSticky(result, current) ==
    IF result.type # "payg"
    THEN IF Lt(result.percentage, Num(SubErrorBelow)) THEN "error"
         ELSE IF Lt(result.percentage, Num(SubWarningBelow)) THEN "warning"
         ELSE current
    ELSE IF Lt(result.percentage, Num(PaygErrorBelow)) THEN "error"
         ELSE IF Lt(result.percentage, Num(PaygWarningBelow)) THEN "warning"
         ELSE current

\* lines 198-216: the colour the item has after the assignment, given the
\* colour it had
backgroundColorFor(result, current) ==
    IF result.type # "payg"
    THEN IF Lt(result.percentage, Num(SubErrorBelow)) THEN "error"
         ELSE IF Lt(result.percentage, Num(SubWarningBelow)) THEN "warning"
         ELSE "none"
    ELSE IF Lt(result.percentage, Num(PaygErrorBelow)) THEN "error"
         ELSE IF Lt(result.percentage, Num(PaygWarningBelow)) THEN "warning"
         ELSE "none"

\* RenderFetchFailure that sets the error colour as the catch block does
RenderFetchFailureColoured(item) ==
    [item EXCEPT !.text = ErrorText, !.tooltip = FetchFailedTooltip,
                 !.backgroundColor = "error"]

\* lines 186-190: fetchBalance returned null
RenderFetchFailure(item) ==
    [item EXCEPT !.text = ErrorText, !.tooltip = FetchFailedTooltip]

\* lines 219-224: the catch block
RenderException(item) ==
    [item EXCEPT !.text = ErrorText, !.tooltip = UnexpectedTooltip,
                 !.backgroundColor = "error"]

\* lines 192-216
RenderResult(item, result) ==
    [item EXCEPT !.text = result.displayText, !.tooltip = result.tooltip,
                 !.backgroundColor = backgroundColorFor(result, item.backgroundColor)]

\* lines 183-225, from the point where fetchBalance has resolved to `data`
\* (<<>> is null, <<p>> is the profile p)
updateBalanceWrite(item, data) ==
    IF data = <<>>
    THEN RenderFetchFailure(item)
    ELSE LET result == calculateCriticalBalance(data[1])
         IN  IF result.threw
             THEN RenderException(item)
             ELSE RenderResult(item, result)

(***************************************************************************)
(* State.  The information and error messages the handlers show           *)
(* (showInformationMessage, showErrorMessage, the "not saved" warning)     *)
(* change nothing the program reads and are left out; the "API Key not     *)
(* set" warning is kept because its button runs a command.                 *)
(***************************************************************************)
VARIABLES
    statusBarItem,  \* the item's text, tooltip and backgroundColor
    refreshTimer,   \* TRUE while the extension is active and its timer runs
    secrets,        \* the value stored under 'yescode.apiKey'
    pc,             \* per refresh in flight: where updateBalance is suspended
    apiKey,         \* per refresh: fetchBalance's local apiKey
    data,           \* per refresh: what fetchBalance resolved to
    prompts,        \* open "API Key not set" warnings with their button
    inputBox,       \* TRUE while setApiKey's input box is open
    arg,            \* classifier model: the profile passed in
    ret,            \* classifier model: <<>> or <<the result>>
    displayMode,    \* mode model: the selected display mode
    current_team    \* mode model: <<>> or <<the profile's current team>>

sysvars ==
    <<statusBarItem, refreshTimer, secrets, pc, apiKey, data, prompts,
      inputBox>>
funvars == <<arg, ret, displayMode, current_team>>
vars == <<sysvars, funvars>>

Tasks == 1..MaxTasks

\* secrets.get of a key never stored, and a cancelled input box
Undefined == "<undefined>"
\* `if (apiKey)` / `if (!apiKey)`
Truthy(str) == str # Undefined /\ str # ""

\* what the input box can resolve to
Inputs == {Undefined, "", "key-1"}

Profile(sb, payg, spend, plan) ==
    [subscription_balance |-> sb, pay_as_you_go_balance |-> payg,
     current_week_spend |-> spend, subscription_plan |-> plan]

Plan(db, wl) == [present |-> TRUE, daily_balance |-> db, weekly_limit |-> wl]

\* the profiles the endpoint serves in the refresh model: one per branch of
\* the classifier and of the colour thresholds
Served ==
    { Profile(0, 9, 0, Plan(4, 4)),      \* depleted, PAYG below 10
      Profile(-1, 10, 1, NullPlan),      \* depleted, no plan, PAYG below 50
      Profile(0, 50, 0, Plan(4, 4)),     \* depleted, PAYG at 50
      Profile(1, 9, 0, Plan(6, 6)),      \* daily 16.7%, weekly 100%
      Profile(4, 9, 3, Plan(4, 4)),      \* daily 100%, weekly 25%
      Profile(2, 9, 2, Plan(4, 4)),      \* daily 50%, weekly 50%
      Profile(3, 9, 0, NullPlan),        \* balance left, no plan
      Profile(1, 9, 0, Plan(1, 0)) }     \* weekly limit 0, nothing spent

\* the values the classifier variables keep in the refresh model
IdleProfile == Profile(0, 0, 0, NullPlan)

(***************************************************************************)
(* The refresh model: Init is the state activate() leaves.  It has created *)
(* the item, registered the commands, called updateBalance once (which is  *)
(* suspended at its first await) and started the timer.                    *)
(***************************************************************************)
FunIdle ==
    /\ arg = IdleProfile
    /\ ret = <<>>
    /\ displayMode = "auto"
    /\ current_team = <<>>

Init ==
    /\ statusBarItem = CreatedItem
    /\ refreshTimer = TRUE
    /\ secrets \in {Undefined, "key-1"}
    /\ pc = [t \in Tasks |-> IF t = 1 THEN "secrets.get" ELSE "idle"]
    /\ apiKey = [t \in Tasks |-> Undefined]
    /\ data = [t \in Tasks |-> <<>>]
    /\ prompts = 0
    /\ inputBox = FALSE
    /\ FunIdle

\* updateBalance is called: it runs to `await context.secrets.get`.  The
\* invocation is kept in the first free slot (the slots are interchangeable)
CallUpdateBalance(t) ==
    /\ pc[t] = "idle"
    /\ \A u \in 1..(t - 1) : pc[u] # "idle"
    /\ pc' = [pc EXCEPT ![t] = "secrets.get"]

\* lines 54-56: the 30 minute interval fires
TimerFires(t) ==
    /\ refreshTimer
    /\ CallUpdateBalance(t)
    /\ UNCHANGED <<statusBarItem, refreshTimer, secrets, apiKey, data, prompts,
                   inputBox>>
    /\ UNCHANGED funvars

\* lines 39-41: 'yescode.refreshBalance', from the palette or by a click on
\* the item (line 26)
RefreshBalanceCommand(t) ==
    /\ refreshTimer
    /\ CallUpdateBalance(t)
    /\ UNCHANGED <<statusBarItem, refreshTimer, secrets, apiKey, data, prompts,
                   inputBox>>
    /\ UNCHANGED funvars

\* lines 45-47: 'yescode.showBalance'
ShowBalanceCommand(t) ==
    /\ refreshTimer
    /\ CallUpdateBalance(t)
    /\ UNCHANGED <<statusBarItem, refreshTimer, secrets, apiKey, data, prompts,
                   inputBox>>
    /\ UNCHANGED funvars

\* afterSecretsGet without the `return null` that follows the warning
afterSecretsGetFallsThrough(key) == "fetch"

\* lines 90-100: where fetchBalance goes once secrets.get resolved to `key`
afterSecretsGet(key) == IF ~Truthy(key) THEN "return" ELSE "fetch"

\* lines 88-107: secrets.get resolves; without a key the warning is shown and
\* fetchBalance returns null, with one the request is sent
SecretsGetResolves(t) ==
    /\ pc[t] = "secrets.get"
    /\ apiKey' = [apiKey EXCEPT ![t] = secrets]
    /\ pc' = [pc EXCEPT ![t] = afterSecretsGet(secrets)]
    /\ IF ~Truthy(secrets)
       THEN /\ prompts < MaxPrompts
            /\ prompts' = prompts + 1
       ELSE UNCHANGED prompts
    /\ UNCHANGED <<statusBarItem, refreshTimer, secrets, data, inputBox>>
    /\ UNCHANGED funvars

\* lines 102-120: the request settles: a response with an ok status, a
\* response with another status, or a rejected fetch
FetchSettles(t) ==
    /\ pc[t] = "fetch"
    /\ \E outcome \in {"ok", "status", "rejected"} :
          IF outcome = "ok"
          THEN pc' = [pc EXCEPT ![t] = "json"]
          ELSE pc' = [pc EXCEPT ![t] = "return"]
    /\ UNCHANGED <<statusBarItem, refreshTimer, secrets, apiKey, data, prompts,
                   inputBox>>
    /\ UNCHANGED funvars

\* lines 113-120: response.json() resolves to a profile, or rejects
JsonSettles(t) ==
    /\ pc[t] = "json"
    /\ \/ \E p \in Served : data' = [data EXCEPT ![t] = <<p>>]
       \/ UNCHANGED data
    /\ pc' = [pc EXCEPT ![t] = "return"]
    /\ UNCHANGED <<statusBarItem, refreshTimer, secrets, apiKey, prompts, inputBox>>
    /\ UNCHANGED funvars

\* lines 184-225: updateBalance resumes with fetchBalance's value and runs to
\* its end without another await
UpdateBalanceResumes(t) ==
    /\ pc[t] = "return"
    /\ statusBarItem' = updateBalanceWrite(statusBarItem, data[t])
    /\ pc' = [pc EXCEPT ![t] = "idle"]
    /\ apiKey' = [apiKey EXCEPT ![t] = Undefined]
    /\ data' = [data EXCEPT ![t] = <<>>]
    /\ UNCHANGED <<refreshTimer, secrets, prompts, inputBox>>
    /\ UNCHANGED funvars

\* lines 94-98: the user picks 'Set API Key' on the warning
PromptSelected ==
    /\ prompts > 0
    /\ prompts' = prompts - 1
    /\ inputBox' = (inputBox \/ refreshTimer)
    /\ UNCHANGED <<statusBarItem, refreshTimer, secrets, pc, apiKey, data>>
    /\ UNCHANGED funvars

\* the user closes the warning
PromptDismissed ==
    /\ prompts > 0
    /\ prompts' = prompts - 1
    /\ UNCHANGED <<statusBarItem, refreshTimer, secrets, pc, apiKey, data,
                   inputBox>>
    /\ UNCHANGED funvars

\* lines 33-35, 69-74: 'yescode.setApiKey' opens the input box; a box that is
\* already open is replaced and resolves to undefined (lines 81-83)
SetApiKeyCommand ==
    /\ refreshTimer
    /\ inputBox' = TRUE
    /\ UNCHANGED <<statusBarItem, refreshTimer, secrets, pc, apiKey, data, prompts>>
    /\ UNCHANGED funvars

\* lines 76-83: the input box resolves; a key is stored and updateBalance is
\* called, anything else is not saved
InputBoxResolves(t) ==
    /\ inputBox
    /\ inputBox' = FALSE
    /\ \E input \in Inputs :
          IF Truthy(input)
          THEN /\ secrets' = input
               /\ CallUpdateBalance(t)
          ELSE UNCHANGED <<secrets, pc>>
    /\ UNCHANGED <<statusBarItem, refreshTimer, apiKey, data, prompts>>
    /\ UNCHANGED funvars

\* lines 58-65, 227-231: the subscriptions are disposed and the timer cleared
Deactivate ==
    /\ refreshTimer
    /\ refreshTimer' = FALSE
    /\ UNCHANGED <<statusBarItem, secrets, pc, apiKey, data, prompts, inputBox>>
    /\ UNCHANGED funvars

Next ==
    \/ \E t \in Tasks : TimerFires(t)
    \/ \E t \in Tasks : RefreshBalanceCommand(t)
    \/ \E t \in Tasks : ShowBalanceCommand(t)
    \/ \E t \in Tasks : SecretsGetResolves(t)
    \/ \E t \in Tasks : FetchSettles(t)
    \/ \E t \in Tasks : JsonSettles(t)
    \/ \E t \in Tasks : UpdateBalanceResumes(t)
    \/ \E t \in Tasks : InputBoxResolves(t)
    \/ PromptSelected
    \/ PromptDismissed
    \/ SetApiKeyCommand
    \/ Deactivate

Spec == Init /\ [][Next]_vars

(***************************************************************************)
(* The classifier model: calculateCriticalBalance applied to every profile *)
(* of the bounded domain, with the refresh machinery at rest.              *)
(***************************************************************************)
SysIdle ==
    /\ statusBarItem = CreatedItem
    /\ refreshTimer = FALSE
    /\ secrets = Undefined
    /\ pc = [t \in Tasks |-> "idle"]
    /\ apiKey = [t \in Tasks |-> Undefined]
    /\ data = [t \in Tasks |-> <<>>]
    /\ prompts = 0
    /\ inputBox = FALSE

InitClassifier ==
    /\ SysIdle
    /\ arg \in ProfileResponse
    /\ ret = <<>>
    /\ displayMode = "auto"
    /\ current_team = <<>>

Classify ==
    /\ ret = <<>>
    /\ ret' = <<calculateCriticalBalance(arg)>>
    /\ UNCHANGED <<arg, displayMode, current_team, sysvars>>

NextClassifier == Classify

SpecClassifier == InitClassifier /\ [][NextClassifier]_vars

(***************************************************************************)
(* The display mode model.  The source holds the profile's team fields     *)
(* (ProfileResponse.current_team) but no code that reads a display mode;   *)
(* mode resolution is taken from section 4.1 of the specification.         *)
(***************************************************************************)
DisplayModes == {"auto", "subscription", "paygo", "team"}

\* Team: the limits the team path uses
Teams == { <<>>, <<[daily_balance |-> 2, weekly_limit |-> 4]>> }

\* resolveMode whose team mode without a team goes straight to pay-as-you-go
resolveModeNoFallback(mode, profile, team) ==
    CASE mode = "auto" ->
            IF ~profile.subscription_plan.present \/ profile.subscription_balance <= 0
            THEN "paygo" ELSE "subscription"
      [] mode = "subscription" ->
            IF ~profile.subscription_plan.present THEN "paygo" ELSE "subscription"
      [] mode = "team" -> IF team # <<>> THEN "team" ELSE "paygo"
      [] OTHER -> "paygo"

\* section 4.1 step 1: the path a mode resolves to
resolveMode(mode, profile, team) ==
    CASE mode = "auto" ->
            IF ~profile.subscription_plan.present \/ profile.subscription_balance <= 0
            THEN "paygo" ELSE "subscription"
      [] mode = "subscription" ->
            IF ~profile.subscription_plan.present THEN "paygo" ELSE "subscription"
      [] mode = "team" ->
            IF team # <<>> THEN "team"
            ELSE IF profile.subscription_plan.present THEN "subscription"
            ELSE "paygo"
      [] OTHER -> "paygo"

\* section 4.1 steps 2-4: the result on the resolved path
classify(mode, profile, team) ==
    LET path == resolveMode(mode, profile, team)
        payg == Num(profile.pay_as_you_go_balance)
    IN  CASE path = "subscription" -> calculateCriticalBalance(profile)
          [] path = "team" ->
                calculateCriticalBalance(
                    [profile EXCEPT !.subscription_plan =
                        Plan(team[1].daily_balance, team[1].weekly_limit)])
          [] OTHER -> Returned("payg", payg, PaygText(payg), PaygTooltip(payg))

\* the profiles of the mode model: one pay-as-you-go balance is enough
ModeProfiles ==
    { q \in ProfileResponse : q.pay_as_you_go_balance = PaygErrorBelow }

InitMode ==
    /\ SysIdle
    /\ arg \in ModeProfiles
    /\ ret = <<>>
    /\ displayMode \in DisplayModes
    /\ current_team \in Teams

ClassifyWithMode ==
    /\ ret = <<>>
    /\ ret' = <<classify(displayMode, arg, current_team)>>
    /\ UNCHANGED <<arg, displayMode, current_team, sysvars>>

\* the user picks another mode in the mode menu
SelectMode ==
    /\ \E m \in DisplayModes \ {displayMode} : displayMode' = m
    /\ ret' = <<>>
    /\ UNCHANGED <<arg, current_team, sysvars>>

NextMode == ClassifyWithMode \/ SelectMode

SpecMode == InitMode /\ [][NextMode]_vars

(***************************************************************************)
(* Properties.                                                             *)
(***************************************************************************)
\* a decimal string with `digits` fraction digits, as toFixed writes it
Decimal(neg, units, digits) ==
    [s |-> "decimal", neg |-> neg, units |-> units, digits |-> digits]

AllDecimal(nums) == \A i \in 1..Len(nums) : nums[i].s = "decimal"

\* the step in which refresh t ends after fetchBalance returned null
FailureStep(t) == pc[t] = "return" /\ pc'[t] = "idle" /\ data[t] = <<>>

\* the step in which refresh t ends having fetched a profile
FetchedStep(t) == pc[t] = "return" /\ pc'[t] = "idle" /\ data[t] # <<>>

\* the step in which refresh t ends having rendered a result
SuccessStep(t) ==
    FetchedStep(t) /\ ~calculateCriticalBalance(data[t][1]).threw

\* the item shows a balance reading
ShowsReading(item) ==
    item.text.label \in {"Yescode PAYG: $_", "Yescode Daily: _%", "Yescode Weekly: _%"}

\* what a successful refresh of profile p leaves on a freshly created item
DisplayOf(p) == RenderResult(CreatedItem, calculateCriticalBalance(p))

\* C1: for every profile with subscription_balance <= 0 the classifier
\* returns the pay-as-you-go category, its percentage is the raw
\* pay_as_you_go_balance (never negative), and the display text states that
\* amount in dollars and cents, whatever the plan and the weekly spend are.
C1_DepletedIsPayg ==
    (ret # <<>> /\ arg.subscription_balance <= 0) =>
        /\ ~ret[1].threw
        /\ ret[1].type = "payg"
        /\ ret[1].percentage = Num(arg.pay_as_you_go_balance)
        /\ IsFinite(ret[1].percentage) /\ ~Lt(ret[1].percentage, Num(0))
        /\ ret[1].displayText.label = "Yescode PAYG: $_"
        /\ ret[1].displayText.nums =
               <<Decimal(FALSE, 100 * arg.pay_as_you_go_balance, 2)>>

\* a negative balance under a plan whose weekly limit is 0 was classified
C1_Witness ==
    /\ ret # <<>>
    /\ arg.subscription_balance < 0
    /\ arg.subscription_plan.present
    /\ arg.subscription_plan.weekly_limit = 0
    /\ arg.pay_as_you_go_balance = PaygErrorBelow - 1
    /\ ret[1].type = "payg"

\* C2: on the subscription path (subscription_balance > 0, plan present) the
\* result is the lower of dailyPercentage and weeklyPercentage: weekly
\* exactly when weeklyPercentage < dailyPercentage, daily otherwise.
C2_LowerWins ==
    (ret # <<>> /\ arg.subscription_balance > 0 /\ arg.subscription_plan.present) =>
        LET dp == dailyPercentage(arg)
            wp == weeklyPercentage(arg)
        IN  /\ ~ret[1].threw
            /\ (ret[1].type = "weekly") <=> Lt(wp, dp)
            /\ (ret[1].type = "daily") <=> ~Lt(wp, dp)
            /\ ret[1].percentage = (IF Lt(wp, dp) THEN wp ELSE dp)

\* C4: on the subscription path with daily_balance = 0 or weekly_limit = 0
\* nothing in the result is NaN or Infinity, and the affected percentage is
\* reported as 0.
C4_ZeroLimitIsDepleted ==
    (/\ ret # <<>>
     /\ arg.subscription_balance > 0
     /\ arg.subscription_plan.present
     /\ (arg.subscription_plan.daily_balance = 0 \/ arg.subscription_plan.weekly_limit = 0)) =>
        /\ ~ret[1].threw
        /\ IsFinite(ret[1].percentage)
        /\ AllDecimal(ret[1].displayText.nums)
        /\ AllDecimal(ret[1].tooltip.nums)
        /\ arg.subscription_plan.daily_balance = 0 =>
               ret[1].tooltip.nums[3] = Decimal(FALSE, 0, 1)
        /\ arg.subscription_plan.weekly_limit = 0 =>
               ret[1].tooltip.nums[6] = Decimal(FALSE, 0, 1)

\* C3: a refresh that ends in a fetch failure while a reading is displayed
\* leaves the text, the tooltip and the colour of that reading untouched.
C3_FailureKeepsReading ==
    [][\A t \in Tasks :
          (FailureStep(t) /\ ShowsReading(statusBarItem)) =>
              statusBarItem' = statusBarItem]_vars

\* C3 as the code has it: a refresh that ends in a fetch failure replaces the
\* text by "Yescode: Error" and the tooltip by the retry message, whatever
\* was displayed, and does not write the background colour.
C3_FailureShowsError ==
    [][\A t \in Tasks :
          FailureStep(t) =>
              /\ statusBarItem'.text = ErrorText
              /\ statusBarItem'.tooltip = FetchFailedTooltip
              /\ statusBarItem'.backgroundColor = statusBarItem.backgroundColor]_vars

\* a failed refresh has replaced a reading whose colour was the warning one
C3_Witness ==
    /\ statusBarItem.text = ErrorText
    /\ statusBarItem.tooltip = FetchFailedTooltip
    /\ statusBarItem.backgroundColor = "warning"

\* C5: a refresh that fetched a profile without a subscription plan ends
\* with the pay-as-you-go display of its pay_as_you_go_balance.
C5_NoPlanShowsPayg ==
    [][\A t \in Tasks :
          (FetchedStep(t) /\ ~data[t][1].subscription_plan.present) =>
              /\ statusBarItem'.text =
                     PaygText(Num(data[t][1].pay_as_you_go_balance))
              /\ statusBarItem'.tooltip =
                     PaygTooltip(Num(data[t][1].pay_as_you_go_balance))]_vars

\* C6: after a successful refresh the colour follows the thresholds: daily
\* and weekly results below 20 error, from 20 and below 50 warning, from 50
\* none; pay-as-you-go results below 10 error, from 10 and below 50 warning,
\* otherwise none.
C6_ColourByThreshold ==
    [][\A t \in Tasks :
          SuccessStep(t) =>
              LET r == calculateCriticalBalance(data[t][1])
                  x == r.percentage
                  c == statusBarItem'.backgroundColor
              IN  IF r.type \in {"daily", "weekly"}
                  THEN /\ Lt(x, Num(20)) => c = "error"
                       /\ (Le(Num(20), x) /\ Lt(x, Num(50))) => c = "warning"
                       /\ Le(Num(50), x) => c = "none"
                  ELSE /\ r.type = "payg"
                       /\ Lt(x, Num(10)) => c = "error"
                       /\ (Le(Num(10), x) /\ Lt(x, Num(50))) => c = "warning"
                       /\ ~Lt(x, Num(50)) => c = "none"]_vars

\* a daily reading of exactly 50% is displayed without a colour
C6_Witness ==
    /\ statusBarItem.text = DailyText(Num(50))
    /\ statusBarItem.backgroundColor = "none"

\* C7: the request to the profile endpoint is in flight only with a
\* non-empty API key read from the secret store; a refresh that finds no key
\* opens the warning prompt and ends with null without sending a request.
C7_KeyBeforeRequest ==
    [][\A t \in Tasks :
          /\ pc'[t] \in {"fetch", "json"} => Truthy(apiKey'[t])
          /\ (pc[t] = "secrets.get" /\ pc'[t] # "secrets.get" /\ ~Truthy(secrets)) =>
                 /\ prompts' = prompts + 1
                 /\ pc'[t] = "return"
                 /\ data'[t] = <<>>
          /\ (pc[t] = "secrets.get" /\ pc'[t] # "secrets.get" /\ Truthy(secrets)) =>
                 /\ pc'[t] = "fetch"
                 /\ apiKey'[t] = secrets]_vars

\* one refresh found no key and prompted, and after a key was stored another
\* refresh has its request in flight
C7_Witness ==
    \E t, u \in Tasks :
        /\ pc[t] = "return" /\ ~Truthy(apiKey[t]) /\ data[t] = <<>>
        /\ pc[u] = "fetch" /\ Truthy(apiKey[u])

\* C8: what a successful refresh leaves on the item depends only on the
\* profile it fetched: it is what the same profile leaves on a freshly
\* created item, whatever the item showed before.
C8_DisplayFromProfileOnly ==
    [][\A t \in Tasks :
          SuccessStep(t) => statusBarItem' = DisplayOf(data[t][1])]_vars

\* a refresh that found no key has ended, its warning is still open, and a
\* later refresh has replaced its error display by a reading without colour
C8_Witness ==
    /\ ShowsReading(statusBarItem)
    /\ statusBarItem.backgroundColor = "none"
    /\ prompts > 0
    /\ \A t \in Tasks : pc[t] = "idle"

\* C9: in team mode with no current team the result is the one of the
\* subscription path (daily or weekly while balance is left) if the profile
\* has a plan, and the pay-as-you-go one otherwise.
C9_TeamFallsBack ==
    (ret # <<>> /\ displayMode = "team" /\ current_team = <<>>) =>
        IF arg.subscription_plan.present
        THEN /\ ret[1] = calculateCriticalBalance(arg)
             /\ arg.subscription_balance > 0 => ret[1].type \in {"daily", "weekly"}
        ELSE /\ ~ret[1].threw
             /\ ret[1].type = "payg"
             /\ ret[1].percentage = Num(arg.pay_as_you_go_balance)

\* team mode without a team gave a weekly result from the plan's limits
C9_Witness ==
    /\ ret # <<>>
    /\ displayMode = "team"
    /\ current_team = <<>>
    /\ arg.subscription_plan.present
    /\ ret[1].type = "weekly"

\* C10: the text, the tooltip and the colour of the item always come from
\* one refresh outcome: the created item, a rendered result, the catch
\* block's error display, or the fetch failure display.
C10_OneOrigin ==
    \/ statusBarItem = CreatedItem
    \/ \E p \in Served :
          /\ ~calculateCriticalBalance(p).threw
          /\ statusBarItem = DisplayOf(p)
    \/ statusBarItem = RenderException(CreatedItem)
    \/ statusBarItem = RenderFetchFailure(CreatedItem)

====
